---- MODULE Spec2Model ----
(***************************************************************************)
(* Node-based containers of to_many_linked_lists: OkStack, BadStack,       *)
(* OkUnsafeQueue, BadSafeDeque and PersistentStack.  Every container is    *)
(* modelled over an explicit heap of nodes (a function from node address   *)
(* to the node's fields); the links of the Rust code are Option values     *)
(* holding a node address.                                                 *)
(***************************************************************************)
EXTENDS Integers, Sequences, FiniteSets, TLC

\* ---------------------------------------------------------------- bounds
MaxStackNodes == 4      \* nodes a stack may hold
MaxQueueNodes == 3      \* nodes the queue may hold
MaxDequeNodes == 3      \* nodes the deque may hold
MaxSharedNodes == 2     \* nodes alive at once under the persistent stacks
MaxElem == 2            \* elements are drawn from 1..MaxElem
MaxViews == 2           \* shared views of one deque node held at once
MaxVers == 2            \* PersistentStack values held at once

Elems == 1..MaxElem
VerIds == 1..MaxVers
DequeIds == 1..MaxDequeNodes

\* ------------------------------------------------------- Option<T>, links
None == <<>>
Some(x) == <<x>>
IsSome(o) == o # <<>>
Unwrap(o) == o[1]

\* BadStack's own enum Link { Empty, More(Box<Node>) }
Empty == <<>>
More(n) == <<n>>

\* *mut Node<T>: ptr::null_mut() or the address of a node
NullPtr == 0

VARIABLES
    okHead, okNodes,        \* OkStack.head, the Box<Node<T>> allocations it owns
    badHead, badNodes,      \* BadStack.head, its Box<Node> allocations
    qHead, qTail, qNodes,   \* OkUnsafeQueue.head, .tail, its allocations
    qUB,                    \* the queue dereferenced a dangling tail pointer
    dHead, dTail, dNodes,   \* BadSafeDeque.head, .tail, its Rc<RefCell<Node>>s
    pVers, pNodes, pIter,   \* live PersistentStack values, their Rc<Node>s,
                            \* the live Iter
    panicked,               \* a call panicked: the thread has unwound
    unit,                   \* the container the caller has constructed
    phase,                  \* the container is live, being dropped, dropped
    cur_link,               \* the local cur_link of a stack's drop loop
    released,               \* the nodes teardown has released so far, each
                            \* with its next link and the nesting depth of
                            \* its release
    iters,                  \* iterations of BadSafeDeque::drop's loop so far
    lastOp, lastRet         \* the caller's last call and what it returned

stackVars == <<okHead, okNodes, badHead, badNodes>>
queueVars == <<qHead, qTail, qNodes, qUB>>
dequeVars == <<dHead, dTail, dNodes>>
pstackVars == <<pVers, pNodes, pIter>>
ctlVars == <<panicked, unit>>
dropVars == <<phase, cur_link, released, iters>>
vars == <<stackVars, queueVars, dequeVars, pstackVars, panicked, unit, lastOp,
          lastRet, dropVars>>

\* ------------------------------------------------------------ allocation
\* Removing a node from a heap: the Box (or the last Rc) is dropped.
Free(nodes, n) == [m \in DOMAIN nodes \ {n} |-> nodes[m]]

\* Address handed out by Box::new / Rc::new: a free address of that heap.
NewId(nodes, cap) ==
    CHOOSE n \in (1..cap) \ DOMAIN nodes :
        \A m \in (1..cap) \ DOMAIN nodes : n <= m

\* The heap has room for one more node.
CanAlloc(nodes, cap) == Cardinality(DOMAIN nodes) < cap

\* Elements met by following next from link, first node first.  Stops at a
\* link that leaves the heap; fuel bounds the walk on a malformed chain.
RECURSIVE Walk(_, _, _)
Walk(nodes, link, fuel) ==
    IF link = None \/ fuel = 0 THEN <<>>
    ELSE IF Unwrap(link) \notin DOMAIN nodes THEN <<>>
    ELSE <<nodes[Unwrap(link)].elem>>
            \o Walk(nodes, nodes[Unwrap(link)].next, fuel - 1)

ChainElems(nodes, link) == Walk(nodes, link, Cardinality(DOMAIN nodes) + 1)

\* The compiler's drop glue for a Link<T> that owns a Box<Node<T>>: the node
\* is released, and releasing it drops its fields, so a next link that is
\* still attached is released inside the release of the node.  The result
\* lists the nodes released, each with the next link it had when released
\* and the nesting depth of its release.
RECURSIVE DropBox(_, _, _)
DropBox(nodes, link, depth) ==
    IF link = None THEN <<>>
    ELSE <<[id |-> Unwrap(link), next |-> nodes[Unwrap(link)].next,
            depth |-> depth]>>
            \o DropBox(nodes, nodes[Unwrap(link)].next, depth + 1)

\* The heap once the nodes listed in rel are deallocated.
FreeAll(nodes, rel) ==
    [m \in DOMAIN nodes \ {rel[i].id : i \in DOMAIN rel} |-> nodes[m]]

\* ================================================================ OkStack
OkNew ==
    /\ okHead = None
    /\ okNodes = <<>>

OkPush(elem) ==
    /\ unit = "ok_stack"
    /\ phase = "live"
    /\ lastOp' = "OkStack.push"
    /\ CanAlloc(okNodes, MaxStackNodes)
    /\ LET n == NewId(okNodes, MaxStackNodes) IN
        /\ okNodes' = okNodes @@ (n :> [elem |-> elem, next |-> okHead])
        /\ okHead' = Some(n)
    /\ lastRet' = None
    /\ UNCHANGED <<badHead, badNodes, queueVars, dequeVars, pstackVars,
                   ctlVars, dropVars>>

OkPop ==
    /\ unit = "ok_stack"
    /\ phase = "live"
    /\ lastOp' = "OkStack.pop"
    /\ IF okHead = None
       THEN /\ lastRet' = None
            /\ UNCHANGED <<okHead, okNodes>>
       ELSE LET node == okNodes[Unwrap(okHead)] IN
            /\ okHead' = node.next
            /\ okNodes' = Free(okNodes, Unwrap(okHead))
            /\ lastRet' = Some(node.elem)
    /\ UNCHANGED <<badHead, badNodes, queueVars, dequeVars, pstackVars,
                   ctlVars, dropVars>>

\* peek: a shared view of the top element; the caller reads it.
OkPeek ==
    /\ unit = "ok_stack"
    /\ phase = "live"
    /\ lastOp' = "OkStack.peek"
    /\ lastRet' = IF okHead = None THEN None
                  ELSE Some(okNodes[Unwrap(okHead)].elem)
    /\ UNCHANGED <<stackVars, queueVars, dequeVars, pstackVars, ctlVars,
                   dropVars>>

\* Mutant of OkPeekMut: the write replaces the whole node, not its element.
OkPeekMut_ReplacesNode(elem) ==
    /\ unit = "ok_stack"
    /\ phase = "live"
    /\ lastOp' = "OkStack.peek_mut"
    /\ IF okHead = None
       THEN /\ lastRet' = None
            /\ UNCHANGED okNodes
       ELSE /\ lastRet' = Some(okNodes[Unwrap(okHead)].elem)
            /\ okNodes' = [okNodes EXCEPT ![Unwrap(okHead)] =
                                [elem |-> elem, next |-> None]]
    /\ UNCHANGED <<okHead, badHead, badNodes, queueVars, dequeVars, pstackVars,
                   ctlVars, dropVars>>

\* peek_mut followed by the caller's write *v = elem through the view, as in
\* test_ok_stack::peek; on an empty stack there is no view to write through.
OkPeekMut(elem) ==
    /\ unit = "ok_stack"
    /\ phase = "live"
    /\ lastOp' = "OkStack.peek_mut"
    /\ IF okHead = None
       THEN /\ lastRet' = None
            /\ UNCHANGED okNodes
       ELSE /\ lastRet' = Some(okNodes[Unwrap(okHead)].elem)
            /\ okNodes' = [okNodes EXCEPT ![Unwrap(okHead)].elem = elem]
    /\ UNCHANGED <<okHead, badHead, badNodes, queueVars, dequeVars, pstackVars,
                   ctlVars, dropVars>>

\* Drop for OkStack, one step per loop iteration.
\* let mut cur_link = self.head.take();
OkDropStart ==
    /\ unit = "ok_stack"
    /\ phase = "live"
    /\ phase' = "dropping"
    /\ lastOp' = "OkStack.drop"
    /\ cur_link' = okHead
    /\ okHead' = None
    /\ lastRet' = None
    /\ UNCHANGED <<okNodes, badHead, badNodes, queueVars, dequeVars,
                   pstackVars, ctlVars, released, iters>>

\* Mutant of OkDropStep: the loop body leaves boxed_node.next attached and
\* ends the loop, so the node goes out of scope owning its successors.
OkDropStep_KeepsNext ==
    /\ unit = "ok_stack"
    /\ phase = "dropping"
    /\ cur_link # None
    /\ lastOp' = "OkStack.drop"
    /\ LET rel == DropBox(okNodes, cur_link, 1) IN
        /\ cur_link' = None
        /\ released' = released \o rel
        /\ okNodes' = FreeAll(okNodes, rel)
    /\ UNCHANGED <<okHead, badHead, badNodes, queueVars, dequeVars, pstackVars,
                   ctlVars, phase, iters, lastRet>>

\* while let Some(mut boxed_node) = cur_link {
\*     cur_link = boxed_node.next.take();
\* }   boxed_node goes out of scope here and is released by its drop glue.
OkDropStep ==
    /\ unit = "ok_stack"
    /\ phase = "dropping"
    /\ cur_link # None
    /\ lastOp' = "OkStack.drop"
    /\ LET boxed_node == Unwrap(cur_link)
           taken == [okNodes EXCEPT ![boxed_node].next = None]
           rel == DropBox(taken, cur_link, 1)
       IN
        /\ cur_link' = okNodes[boxed_node].next
        /\ released' = released \o rel
        /\ okNodes' = FreeAll(taken, rel)
    /\ UNCHANGED <<okHead, badHead, badNodes, queueVars, dequeVars, pstackVars,
                   ctlVars, phase, iters, lastRet>>

\* cur_link is None: the loop ends, drop returns, and the glue drops the
\* field self.head.
OkDropEnd ==
    /\ unit = "ok_stack"
    /\ phase = "dropping"
    /\ cur_link = None
    /\ phase' = "dropped"
    /\ lastOp' = "OkStack.drop"
    /\ LET rel == DropBox(okNodes, okHead, 1) IN
        /\ released' = released \o rel
        /\ okNodes' = FreeAll(okNodes, rel)
    /\ UNCHANGED <<okHead, badHead, badNodes, queueVars, dequeVars, pstackVars,
                   ctlVars, cur_link, iters, lastRet>>

\* =============================================================== BadStack
BadNew ==
    /\ badHead = Empty
    /\ badNodes = <<>>

BadPush(elem) ==
    /\ unit = "bad_stack"
    /\ phase = "live"
    /\ lastOp' = "BadStack.push"
    /\ CanAlloc(badNodes, MaxStackNodes)
    /\ LET n == NewId(badNodes, MaxStackNodes) IN
        /\ badNodes' = badNodes @@ (n :> [elem |-> elem, next |-> badHead])
        /\ badHead' = More(n)
    /\ lastRet' = None
    /\ UNCHANGED <<okHead, okNodes, queueVars, dequeVars, pstackVars,
                   ctlVars, dropVars>>

\* Mutant of BadPop: the head is replaced by the popped node's successor's
\* successor link, losing a node.
BadPop_SkipsNode ==
    /\ unit = "bad_stack"
    /\ phase = "live"
    /\ lastOp' = "BadStack.pop"
    /\ IF badHead = Empty
       THEN /\ lastRet' = None
            /\ UNCHANGED <<badHead, badNodes>>
       ELSE LET node == badNodes[Unwrap(badHead)] IN
            /\ badHead' = IF node.next = Empty THEN Empty
                          ELSE badNodes[Unwrap(node.next)].next
            /\ badNodes' = Free(badNodes, Unwrap(badHead))
            /\ lastRet' = Some(node.elem)
    /\ UNCHANGED <<okHead, okNodes, queueVars, dequeVars, pstackVars,
                   ctlVars, dropVars>>

BadPop ==
    /\ unit = "bad_stack"
    /\ phase = "live"
    /\ lastOp' = "BadStack.pop"
    /\ IF badHead = Empty
       THEN /\ lastRet' = None
            /\ UNCHANGED <<badHead, badNodes>>
       ELSE LET node == badNodes[Unwrap(badHead)] IN
            /\ badHead' = node.next
            /\ badNodes' = Free(badNodes, Unwrap(badHead))
            /\ lastRet' = Some(node.elem)
    /\ UNCHANGED <<okHead, okNodes, queueVars, dequeVars, pstackVars,
                   ctlVars, dropVars>>

\* Drop for BadStack, one step per loop iteration.
\* let mut cur_link = mem::replace(&mut self.head, Link::Empty);
BadDropStart ==
    /\ unit = "bad_stack"
    /\ phase = "live"
    /\ phase' = "dropping"
    /\ lastOp' = "BadStack.drop"
    /\ cur_link' = badHead
    /\ badHead' = Empty
    /\ lastRet' = None
    /\ UNCHANGED <<badNodes, okHead, okNodes, queueVars, dequeVars,
                   pstackVars, ctlVars, released, iters>>

\* while let Link::More(mut boxed_node) = cur_link {
\*     cur_link = mem::replace(&mut boxed_node.next, Link::Empty);
\* }   boxed_node goes out of scope here and is released by its drop glue.
BadDropStep ==
    /\ unit = "bad_stack"
    /\ phase = "dropping"
    /\ cur_link # Empty
    /\ lastOp' = "BadStack.drop"
    /\ LET boxed_node == Unwrap(cur_link)
           replaced == [badNodes EXCEPT ![boxed_node].next = Empty]
           rel == DropBox(replaced, cur_link, 1)
       IN
        /\ cur_link' = badNodes[boxed_node].next
        /\ released' = released \o rel
        /\ badNodes' = FreeAll(replaced, rel)
    /\ UNCHANGED <<badHead, okHead, okNodes, queueVars, dequeVars, pstackVars,
                   ctlVars, phase, iters, lastRet>>

\* cur_link is Link::Empty: the loop ends, drop returns, and the glue drops
\* the field self.head.
BadDropEnd ==
    /\ unit = "bad_stack"
    /\ phase = "dropping"
    /\ cur_link = Empty
    /\ phase' = "dropped"
    /\ lastOp' = "BadStack.drop"
    /\ LET rel == DropBox(badNodes, badHead, 1) IN
        /\ released' = released \o rel
        /\ badNodes' = FreeAll(badNodes, rel)
    /\ UNCHANGED <<badHead, okHead, okNodes, queueVars, dequeVars, pstackVars,
                   ctlVars, cur_link, iters, lastRet>>

\* ========================================================== OkUnsafeQueue
QNew ==
    /\ qHead = None
    /\ qTail = NullPtr
    /\ qNodes = <<>>
    /\ qUB = FALSE

\* Mutant of QPush: self.tail is not moved to the new node.
QPush_StaleTail(elem) ==
    /\ unit = "ok_unsafe_queue"
    /\ phase = "live"
    /\ lastOp' = "OkUnsafeQueue.push"
    /\ CanAlloc(qNodes, MaxQueueNodes)
    /\ LET n == NewId(qNodes, MaxQueueNodes)
           alloc == qNodes @@ (n :> [elem |-> elem, next |-> None])
       IN
        /\ IF qTail # NullPtr
           THEN IF qTail \in DOMAIN qNodes
                THEN /\ qNodes' = [alloc EXCEPT ![qTail].next = Some(n)]
                     /\ UNCHANGED <<qHead, qUB>>
                ELSE /\ \/ qNodes' = alloc
                        \/ /\ qTail \in DOMAIN alloc
                           /\ qNodes' = [alloc EXCEPT ![qTail].next = Some(n)]
                     /\ qUB' = TRUE
                     /\ UNCHANGED qHead
           ELSE /\ qNodes' = alloc
                /\ qHead' = Some(n)
                /\ UNCHANGED qUB
        /\ qTail' = IF qTail = NullPtr THEN n ELSE qTail
    /\ lastRet' = None
    /\ UNCHANGED <<stackVars, dequeVars, pstackVars, ctlVars, dropVars>>

\* push: the new node is allocated first; a non-null tail is dereferenced
\* to link it, otherwise it becomes head.  Dereferencing a tail whose node
\* has been freed is undefined behaviour: the write either lands in the
\* node that now lives at that address (possibly the new node itself) or is
\* lost, and qUB records that it happened.
QPush(elem) ==
    /\ unit = "ok_unsafe_queue"
    /\ phase = "live"
    /\ lastOp' = "OkUnsafeQueue.push"
    /\ CanAlloc(qNodes, MaxQueueNodes)
    /\ LET n == NewId(qNodes, MaxQueueNodes)
           alloc == qNodes @@ (n :> [elem |-> elem, next |-> None])
       IN
        /\ IF qTail # NullPtr
           THEN IF qTail \in DOMAIN qNodes
                THEN /\ qNodes' = [alloc EXCEPT ![qTail].next = Some(n)]
                     /\ UNCHANGED <<qHead, qUB>>
                ELSE /\ \/ qNodes' = alloc
                        \/ /\ qTail \in DOMAIN alloc
                           /\ qNodes' = [alloc EXCEPT ![qTail].next = Some(n)]
                     /\ qUB' = TRUE
                     /\ UNCHANGED qHead
           ELSE /\ qNodes' = alloc
                /\ qHead' = Some(n)
                /\ UNCHANGED qUB
        /\ qTail' = n
    /\ lastRet' = None
    /\ UNCHANGED <<stackVars, dequeVars, pstackVars, ctlVars, dropVars>>

\* Mutant of QPop: tail is not cleared when the last node is popped.
QPop_KeepsTail ==
    /\ unit = "ok_unsafe_queue"
    /\ phase = "live"
    /\ lastOp' = "OkUnsafeQueue.pop"
    /\ IF qHead = None
       THEN /\ lastRet' = None
            /\ UNCHANGED <<qHead, qTail, qNodes>>
       ELSE LET head == qNodes[Unwrap(qHead)] IN
            /\ qHead' = head.next
            /\ qTail' = qTail
            /\ qNodes' = Free(qNodes, Unwrap(qHead))
            /\ lastRet' = Some(head.elem)
    /\ UNCHANGED <<stackVars, qUB, dequeVars, pstackVars, ctlVars, dropVars>>

QPop ==
    /\ unit = "ok_unsafe_queue"
    /\ phase = "live"
    /\ lastOp' = "OkUnsafeQueue.pop"
    /\ IF qHead = None
       THEN /\ lastRet' = None
            /\ UNCHANGED <<qHead, qTail, qNodes>>
       ELSE LET head == qNodes[Unwrap(qHead)] IN
            /\ qHead' = head.next
            /\ qTail' = IF head.next = None THEN NullPtr ELSE qTail
            /\ qNodes' = Free(qNodes, Unwrap(qHead))
            /\ lastRet' = Some(head.elem)
    /\ UNCHANGED <<stackVars, qUB, dequeVars, pstackVars, ctlVars, dropVars>>

\* OkUnsafeQueue has no Drop impl: when the queue goes out of scope the
\* compiler's drop glue drops its fields in order.  head owns the chain, so
\* the glue releases the first node, and inside that release the node's
\* next field, and so on down the chain; tail is a raw pointer, whose drop
\* does nothing.
QDrop ==
    /\ unit = "ok_unsafe_queue"
    /\ phase = "live"
    /\ phase' = "dropped"
    /\ lastOp' = "OkUnsafeQueue.drop"
    /\ LET rel == DropBox(qNodes, qHead, 1) IN
        /\ released' = released \o rel
        /\ qNodes' = FreeAll(qNodes, rel)
    /\ qHead' = None
    /\ lastRet' = None
    /\ UNCHANGED <<qTail, qUB, stackVars, dequeVars, pstackVars, ctlVars,
                   cur_link, iters>>

\* =========================================================== BadSafeDeque
\* A node lives in an Rc<RefCell<Node<T>>>: strong is the Rc's strong count,
\* borrow the RefCell's borrow flag (0 unused, k > 0 for k shared borrows,
\* -1 for a mutable borrow).
DNode(elem) == [elem |-> elem, next |-> None, prev |-> None,
                strong |-> 1, borrow |-> 0]

\* Rc::clone(&node)
RcClone(nodes, n) == [nodes EXCEPT ![n].strong = @ + 1]

\* Dropping a Link<T>: the strong count goes down by one; the node is freed
\* with the last reference, and then its own next and prev links dropped.
RECURSIVE RcDrop(_, _)
RcDrop(nodes, link) ==
    IF link = None THEN nodes
    ELSE IF Unwrap(link) \notin DOMAIN nodes THEN nodes
    ELSE IF nodes[Unwrap(link)].strong > 1
         THEN [nodes EXCEPT ![Unwrap(link)].strong = @ - 1]
         ELSE RcDrop(RcDrop(Free(nodes, Unwrap(link)),
                            nodes[Unwrap(link)].next),
                     nodes[Unwrap(link)].prev)

\* RefCell::borrow_mut and RefCell::borrow succeed on these flags, and panic
\* on the others.
\* Mutant of CanBorrowMut: shared borrows do not stop a mutable borrow.
CanBorrowMut_IgnoresReaders(node) == node.borrow >= 0

CanBorrowMut(node) == node.borrow = 0
CanBorrow(node) == node.borrow >= 0

\* push_* and pop_* take &mut self, and every view borrows the deque, so
\* the compiler admits them only when no view is outstanding.
NoViews == \A n \in DOMAIN dNodes : dNodes[n].borrow = 0

DNew ==
    /\ dHead = None
    /\ dTail = None
    /\ dNodes = <<>>

\* A panic: the call does not return and the thread unwinds.
DPanic(nodes, head, tail) ==
    /\ dNodes' = nodes
    /\ dHead' = head
    /\ dTail' = tail
    /\ panicked' = TRUE
    /\ lastRet' = None

\* Mutant of DPushFront: the old head's prev is not set to the new node.
DPushFront_NoBackLink(elem) ==
    /\ unit = "bad_safe_deque"
    /\ phase = "live"
    /\ lastOp' = "BadSafeDeque.push_front"
    /\ ~panicked
    /\ NoViews
    /\ CanAlloc(dNodes, MaxDequeNodes)
    /\ LET n == NewId(dNodes, MaxDequeNodes)
           alloc == dNodes @@ (n :> DNode(elem))
       IN
        IF dHead # None
        THEN LET old == Unwrap(dHead) IN
             IF ~CanBorrowMut(alloc[old])
             THEN DPanic(RcDrop(RcDrop(alloc, Some(n)), dHead), None, dTail)
             ELSE LET linked == RcDrop(alloc, alloc[old].prev) IN
                  /\ dNodes' = [linked EXCEPT ![old].prev = None,
                                              ![n].next = Some(old)]
                  /\ dHead' = Some(n)
                  /\ UNCHANGED <<dTail, panicked>>
                  /\ lastRet' = None
        ELSE /\ dNodes' = RcDrop(RcClone(alloc, n), dTail)
             /\ dTail' = Some(n)
             /\ dHead' = Some(n)
             /\ UNCHANGED panicked
             /\ lastRet' = None
    /\ UNCHANGED <<stackVars, queueVars, pstackVars, unit, dropVars>>

DPushFront(elem) ==
    /\ unit = "bad_safe_deque"
    /\ phase = "live"
    /\ lastOp' = "BadSafeDeque.push_front"
    /\ ~panicked
    /\ NoViews
    /\ CanAlloc(dNodes, MaxDequeNodes)
    /\ LET n == NewId(dNodes, MaxDequeNodes)
           alloc == dNodes @@ (n :> DNode(elem))
       IN
        IF dHead # None
        THEN LET old == Unwrap(dHead) IN
             IF ~CanBorrowMut(alloc[old])
             THEN DPanic(RcDrop(RcDrop(alloc, Some(n)), dHead), None, dTail)
             ELSE LET linked == RcDrop(RcClone(alloc, n), alloc[old].prev) IN
                  /\ dNodes' = [linked EXCEPT ![old].prev = Some(n),
                                              ![n].next = Some(old)]
                  /\ dHead' = Some(n)
                  /\ UNCHANGED <<dTail, panicked>>
                  /\ lastRet' = None
        ELSE /\ dNodes' = RcDrop(RcClone(alloc, n), dTail)
             /\ dTail' = Some(n)
             /\ dHead' = Some(n)
             /\ UNCHANGED panicked
             /\ lastRet' = None
    /\ UNCHANGED <<stackVars, queueVars, pstackVars, unit, dropVars>>

DPushBack(elem) ==
    /\ unit = "bad_safe_deque"
    /\ phase = "live"
    /\ lastOp' = "BadSafeDeque.push_back"
    /\ ~panicked
    /\ NoViews
    /\ CanAlloc(dNodes, MaxDequeNodes)
    /\ LET n == NewId(dNodes, MaxDequeNodes)
           alloc == dNodes @@ (n :> DNode(elem))
       IN
        IF dTail # None
        THEN LET old == Unwrap(dTail) IN
             IF ~CanBorrowMut(alloc[old])
             THEN DPanic(RcDrop(RcDrop(alloc, Some(n)), dTail), dHead, None)
             ELSE LET linked == RcDrop(RcClone(alloc, n), alloc[old].next) IN
                  /\ dNodes' = [linked EXCEPT ![old].next = Some(n),
                                              ![n].prev = Some(old)]
                  /\ dTail' = Some(n)
                  /\ UNCHANGED <<dHead, panicked>>
                  /\ lastRet' = None
        ELSE /\ dNodes' = RcDrop(RcClone(alloc, n), dHead)
             /\ dTail' = Some(n)
             /\ dHead' = Some(n)
             /\ UNCHANGED panicked
             /\ lastRet' = None
    /\ UNCHANGED <<stackVars, queueVars, pstackVars, unit, dropVars>>

\* Mutant of PopFrontOp: popping the only element leaves self.tail in place.
PopFrontOp_KeepsTail(nodes, head, tail) ==
    IF head = None
    THEN [nodes |-> nodes, head |-> head, tail |-> tail, ret |-> None,
          panic |-> FALSE]
    ELSE LET old == Unwrap(head)
             nxt == nodes[old].next
         IN
         IF ~CanBorrowMut(nodes[old])
         THEN [nodes |-> RcDrop(nodes, head), head |-> None, tail |-> tail,
               ret |-> None, panic |-> TRUE]
         ELSE IF nxt # None /\ ~CanBorrowMut(nodes[Unwrap(nxt)])
         THEN [nodes |-> RcDrop(RcDrop([nodes EXCEPT ![old].next = None], nxt),
                                head),
               head |-> None, tail |-> tail, ret |-> None, panic |-> TRUE]
         ELSE LET unlinked ==
                     IF nxt # None
                     THEN RcDrop([nodes EXCEPT ![old].next = None,
                                               ![Unwrap(nxt)].prev = None],
                                 nodes[Unwrap(nxt)].prev)
                     ELSE nodes
                  newHead == nxt
                  newTail == IF nxt # None THEN tail ELSE tail
              IN
              IF unlinked[old].strong = 1
              THEN [nodes |-> RcDrop(RcDrop(Free(unlinked, old),
                                            unlinked[old].next),
                                     unlinked[old].prev),
                    head |-> newHead, tail |-> newTail,
                    ret |-> Some(unlinked[old].elem), panic |-> FALSE]
              ELSE [nodes |-> RcDrop(unlinked, Some(old)), head |-> newHead,
                    tail |-> newTail, ret |-> None, panic |-> TRUE]

\* pop_front on a deque with the given heap and fields: the heap and fields
\* it leaves, what it returns, and whether it panicked.  unlinked is the
\* heap once the old head is detached: its successor's prev (or, for a
\* single element, self.tail) has been taken and dropped.  Rc::try_unwrap
\* then succeeds only on a strong count of one.
PopFrontOp(nodes, head, tail) ==
    IF head = None
    THEN [nodes |-> nodes, head |-> head, tail |-> tail, ret |-> None,
          panic |-> FALSE]
    ELSE LET old == Unwrap(head)
             nxt == nodes[old].next
         IN
         IF ~CanBorrowMut(nodes[old])
         THEN [nodes |-> RcDrop(nodes, head), head |-> None, tail |-> tail,
               ret |-> None, panic |-> TRUE]
         ELSE IF nxt # None /\ ~CanBorrowMut(nodes[Unwrap(nxt)])
         THEN [nodes |-> RcDrop(RcDrop([nodes EXCEPT ![old].next = None], nxt),
                                head),
               head |-> None, tail |-> tail, ret |-> None, panic |-> TRUE]
         ELSE LET unlinked ==
                     IF nxt # None
                     THEN RcDrop([nodes EXCEPT ![old].next = None,
                                               ![Unwrap(nxt)].prev = None],
                                 nodes[Unwrap(nxt)].prev)
                     ELSE RcDrop(nodes, tail)
                  newHead == nxt
                  newTail == IF nxt # None THEN tail ELSE None
              IN
              IF unlinked[old].strong = 1
              THEN [nodes |-> RcDrop(RcDrop(Free(unlinked, old),
                                            unlinked[old].next),
                                     unlinked[old].prev),
                    head |-> newHead, tail |-> newTail,
                    ret |-> Some(unlinked[old].elem), panic |-> FALSE]
              ELSE [nodes |-> RcDrop(unlinked, Some(old)), head |-> newHead,
                    tail |-> newTail, ret |-> None, panic |-> TRUE]

DPopFront ==
    /\ unit = "bad_safe_deque"
    /\ phase = "live"
    /\ lastOp' = "BadSafeDeque.pop_front"
    /\ ~panicked
    /\ NoViews
    /\ LET r == PopFrontOp(dNodes, dHead, dTail) IN
        /\ dNodes' = r.nodes
        /\ dHead' = r.head
        /\ dTail' = r.tail
        /\ lastRet' = r.ret
        /\ panicked' = r.panic
    /\ UNCHANGED <<stackVars, queueVars, pstackVars, unit, dropVars>>

\* Mutant of DPopBack: popping the only element leaves self.head in place.
DPopBack_KeepsHead ==
    /\ unit = "bad_safe_deque"
    /\ phase = "live"
    /\ lastOp' = "BadSafeDeque.pop_back"
    /\ ~panicked
    /\ NoViews
    /\ IF dTail = None
       THEN /\ lastRet' = None
            /\ UNCHANGED <<dHead, dTail, dNodes, panicked>>
       ELSE LET old == Unwrap(dTail)
                prv == dNodes[old].prev
            IN
            IF ~CanBorrowMut(dNodes[old])
            THEN DPanic(RcDrop(dNodes, dTail), dHead, None)
            ELSE IF prv # None /\ ~CanBorrowMut(dNodes[Unwrap(prv)])
            THEN DPanic(RcDrop(RcDrop([dNodes EXCEPT ![old].prev = None], prv),
                               dTail), dHead, None)
            ELSE LET unlinked ==
                        IF prv # None
                        THEN RcDrop([dNodes EXCEPT ![old].prev = None,
                                                   ![Unwrap(prv)].next = None],
                                    dNodes[Unwrap(prv)].next)
                        ELSE dNodes
                     newTail == prv
                     newHead == dHead
                 IN
                 IF unlinked[old].strong = 1
                 THEN /\ dNodes' = RcDrop(RcDrop(Free(unlinked, old),
                                                 unlinked[old].next),
                                          unlinked[old].prev)
                      /\ dHead' = newHead
                      /\ dTail' = newTail
                      /\ lastRet' = Some(unlinked[old].elem)
                      /\ UNCHANGED panicked
                 ELSE DPanic(RcDrop(unlinked, Some(old)), newHead, newTail)
    /\ UNCHANGED <<stackVars, queueVars, pstackVars, unit, dropVars>>

\* Mutant of DPopBack: the new tail's next, which refers to the old tail,
\* is not taken.
DPopBack_KeepsBackLink ==
    /\ unit = "bad_safe_deque"
    /\ phase = "live"
    /\ lastOp' = "BadSafeDeque.pop_back"
    /\ ~panicked
    /\ NoViews
    /\ IF dTail = None
       THEN /\ lastRet' = None
            /\ UNCHANGED <<dHead, dTail, dNodes, panicked>>
       ELSE LET old == Unwrap(dTail)
                prv == dNodes[old].prev
            IN
            IF ~CanBorrowMut(dNodes[old])
            THEN DPanic(RcDrop(dNodes, dTail), dHead, None)
            ELSE IF prv # None /\ ~CanBorrowMut(dNodes[Unwrap(prv)])
            THEN DPanic(RcDrop(RcDrop([dNodes EXCEPT ![old].prev = None], prv),
                               dTail), dHead, None)
            ELSE LET unlinked ==
                        IF prv # None
                        THEN [dNodes EXCEPT ![old].prev = None]
                        ELSE RcDrop(dNodes, dHead)
                     newTail == prv
                     newHead == IF prv # None THEN dHead ELSE None
                 IN
                 IF unlinked[old].strong = 1
                 THEN /\ dNodes' = RcDrop(RcDrop(Free(unlinked, old),
                                                 unlinked[old].next),
                                          unlinked[old].prev)
                      /\ dHead' = newHead
                      /\ dTail' = newTail
                      /\ lastRet' = Some(unlinked[old].elem)
                      /\ UNCHANGED panicked
                 ELSE DPanic(RcDrop(unlinked, Some(old)), newHead, newTail)
    /\ UNCHANGED <<stackVars, queueVars, pstackVars, unit, dropVars>>

DPopBack ==
    /\ unit = "bad_safe_deque"
    /\ phase = "live"
    /\ lastOp' = "BadSafeDeque.pop_back"
    /\ ~panicked
    /\ NoViews
    /\ IF dTail = None
       THEN /\ lastRet' = None
            /\ UNCHANGED <<dHead, dTail, dNodes, panicked>>
       ELSE LET old == Unwrap(dTail)
                prv == dNodes[old].prev
            IN
            IF ~CanBorrowMut(dNodes[old])
            THEN DPanic(RcDrop(dNodes, dTail), dHead, None)
            ELSE IF prv # None /\ ~CanBorrowMut(dNodes[Unwrap(prv)])
            THEN DPanic(RcDrop(RcDrop([dNodes EXCEPT ![old].prev = None], prv),
                               dTail), dHead, None)
            ELSE LET unlinked ==
                        IF prv # None
                        THEN RcDrop([dNodes EXCEPT ![old].prev = None,
                                                   ![Unwrap(prv)].next = None],
                                    dNodes[Unwrap(prv)].next)
                        ELSE RcDrop(dNodes, dHead)
                     newTail == prv
                     newHead == IF prv # None THEN dHead ELSE None
                 IN
                 IF unlinked[old].strong = 1
                 THEN /\ dNodes' = RcDrop(RcDrop(Free(unlinked, old),
                                                 unlinked[old].next),
                                          unlinked[old].prev)
                      /\ dHead' = newHead
                      /\ dTail' = newTail
                      /\ lastRet' = Some(unlinked[old].elem)
                      /\ UNCHANGED panicked
                 ELSE DPanic(RcDrop(unlinked, Some(old)), newHead, newTail)
    /\ UNCHANGED <<stackVars, queueVars, pstackVars, unit, dropVars>>

\* Mutant of DPeek: the end link is unwrapped without the check for None,
\* which panics on an empty deque.
DPeek_Unwraps(op, link) ==
    /\ unit = "bad_safe_deque"
    /\ phase = "live"
    /\ lastOp' = op
    /\ ~panicked
    /\ IF link = None
       THEN DPanic(dNodes, dHead, dTail)
       ELSE IF CanBorrow(dNodes[Unwrap(link)])
       THEN /\ dNodes[Unwrap(link)].borrow < MaxViews
            /\ dNodes' = [dNodes EXCEPT ![Unwrap(link)].borrow = @ + 1]
            /\ lastRet' = Some(dNodes[Unwrap(link)].elem)
            /\ UNCHANGED panicked
       ELSE DPanic(dNodes, dHead, dTail)
    /\ UNCHANGED <<dHead, dTail, stackVars, queueVars, pstackVars, unit,
                   dropVars>>

\* peek_front / peek_back: node.borrow() on the end node.  The Ref handed
\* to the caller keeps the node's borrow flag raised until it is dropped.
DPeek(op, link) ==
    /\ unit = "bad_safe_deque"
    /\ phase = "live"
    /\ lastOp' = op
    /\ ~panicked
    /\ IF link = None
       THEN /\ lastRet' = None
            /\ UNCHANGED <<dNodes, panicked>>
       ELSE IF CanBorrow(dNodes[Unwrap(link)])
       THEN /\ dNodes[Unwrap(link)].borrow < MaxViews
            /\ dNodes' = [dNodes EXCEPT ![Unwrap(link)].borrow = @ + 1]
            /\ lastRet' = Some(dNodes[Unwrap(link)].elem)
            /\ UNCHANGED panicked
       ELSE DPanic(dNodes, dHead, dTail)
    /\ UNCHANGED <<dHead, dTail, stackVars, queueVars, pstackVars, unit,
                   dropVars>>

DPeekFront == DPeek("BadSafeDeque.peek_front", dHead)

\* Mutant of DPeekBack: the view is taken on self.head.
DPeekBack_UsesHead == DPeek("BadSafeDeque.peek_back", dHead)

DPeekBack == DPeek("BadSafeDeque.peek_back", dTail)

\* peek_front_mut / peek_back_mut: node.borrow_mut() on the end node.
DPeekMut(op, link) ==
    /\ unit = "bad_safe_deque"
    /\ phase = "live"
    /\ lastOp' = op
    /\ ~panicked
    /\ IF link = None
       THEN /\ lastRet' = None
            /\ UNCHANGED <<dNodes, panicked>>
       ELSE IF CanBorrowMut(dNodes[Unwrap(link)])
       THEN /\ dNodes' = [dNodes EXCEPT ![Unwrap(link)].borrow = -1]
            /\ lastRet' = Some(dNodes[Unwrap(link)].elem)
            /\ UNCHANGED panicked
       ELSE DPanic(dNodes, dHead, dTail)
    /\ UNCHANGED <<dHead, dTail, stackVars, queueVars, pstackVars, unit,
                   dropVars>>

DPeekFrontMut == DPeekMut("BadSafeDeque.peek_front_mut", dHead)

\* Mutant of DPeekBackMut: the view is taken on self.head.
DPeekBackMut_UsesHead == DPeekMut("BadSafeDeque.peek_back_mut", dHead)

DPeekBackMut == DPeekMut("BadSafeDeque.peek_back_mut", dTail)

\* The caller assigns through a RefMut it holds (*node = elem); this is no
\* call of the deque, and lastRet stays what the last call returned.
DViewWrite(n, elem) ==
    /\ unit = "bad_safe_deque"
    /\ phase = "live"
    /\ lastOp' = "RefMut.write"
    /\ ~panicked
    /\ n \in DOMAIN dNodes
    /\ dNodes[n].borrow = -1
    /\ dNodes' = [dNodes EXCEPT ![n].elem = elem]
    /\ UNCHANGED <<dHead, dTail, panicked, lastRet, stackVars, queueVars,
                   pstackVars, unit, dropVars>>

\* The caller drops a view it holds, or the unwinding after a panic drops
\* it: Drop for Ref / RefMut lowers the flag.
DViewDrop(n) ==
    /\ unit = "bad_safe_deque"
    /\ phase = "live"
    /\ lastOp' = "View.drop"
    /\ n \in DOMAIN dNodes
    /\ dNodes[n].borrow # 0
    /\ dNodes' = [dNodes EXCEPT ![n].borrow =
                        IF @ > 0 THEN @ - 1 ELSE 0]
    /\ lastRet' = None
    /\ UNCHANGED <<dHead, dTail, panicked, stackVars, queueVars, pstackVars,
                   unit, dropVars>>

\* Mutant of DDropStep: drop pops once and returns, whatever the result.
DDropStep_OnePop ==
    /\ unit = "bad_safe_deque"
    /\ phase \in {"live", "dropping"}
    /\ NoViews
    /\ lastOp' = "BadSafeDeque.drop"
    /\ iters' = iters + 1
    /\ LET r == PopFrontOp(dNodes, dHead, dTail) IN
        /\ lastRet' = r.ret
        /\ panicked' = (panicked \/ r.panic)
        /\ IF FALSE
           THEN /\ phase' = "dropping"
                /\ dNodes' = r.nodes
                /\ dHead' = r.head
                /\ dTail' = r.tail
           ELSE /\ phase' = "dropped"
                /\ dNodes' = RcDrop(RcDrop(r.nodes, r.head), r.tail)
                /\ dHead' = None
                /\ dTail' = None
    /\ UNCHANGED <<stackVars, queueVars, pstackVars, unit, cur_link, released>>

\* Drop for BadSafeDeque, one step per loop iteration:
\*     while self.pop_front().is_some() {}
\* drop takes &mut self, so no view is outstanding (a view borrows the
\* deque and is dropped before it, also when the thread unwinds).  When
\* pop_front returns None, or panics, the loop is over and the glue drops
\* the fields head and tail.
DDropStep ==
    /\ unit = "bad_safe_deque"
    /\ phase \in {"live", "dropping"}
    /\ NoViews
    /\ lastOp' = "BadSafeDeque.drop"
    /\ iters' = iters + 1
    /\ LET r == PopFrontOp(dNodes, dHead, dTail) IN
        /\ lastRet' = r.ret
        /\ panicked' = (panicked \/ r.panic)
        /\ IF r.ret # None
           THEN /\ phase' = "dropping"
                /\ dNodes' = r.nodes
                /\ dHead' = r.head
                /\ dTail' = r.tail
           ELSE /\ phase' = "dropped"
                /\ dNodes' = RcDrop(RcDrop(r.nodes, r.head), r.tail)
                /\ dHead' = None
                /\ dTail' = None
    /\ UNCHANGED <<stackVars, queueVars, pstackVars, unit, cur_link, released>>

\* ======================================================== PersistentStack
\* The caller holds several PersistentStack values (versions) at once:
\* pVers maps a live version to its head link.  A node lives in an
\* Rc<Node<T>>: strong is the Rc's strong count.
PNode(elem, next) == [elem |-> elem, next |-> next, strong |-> 1]

NewSlot(slots, taken) ==
    CHOOSE a \in slots \ taken : \A b \in slots \ taken : a <= b

PInit ==
    /\ pVers = <<>>
    /\ pNodes = <<>>
    /\ pIter = None

\* PersistentStack::new()
PNew ==
    /\ unit = "persistent_stack"
    /\ lastOp' = "PersistentStack.new"
    /\ DOMAIN pVers # VerIds
    /\ pVers' = pVers @@ (NewSlot(VerIds, DOMAIN pVers) :> None)
    /\ lastRet' = None
    /\ UNCHANGED <<pNodes, pIter, ctlVars, dropVars, stackVars, queueVars,
                   dequeVars>>

\* Mutant of PrependOp: the new node's next refers to the successor of the
\* head node, not to the head node.
PrependOp_SkipsHead(nodes, head, elem) ==
    LET n == NewId(nodes, MaxSharedNodes)
        link == IF head = None THEN None ELSE nodes[Unwrap(head)].next
        shared == IF link = None THEN nodes ELSE RcClone(nodes, Unwrap(link))
    IN [nodes |-> shared @@ (n :> PNode(elem, link)), head |-> Some(n)]

\* prepend: the heap and the head of the stack it returns.
PrependOp(nodes, head, elem) ==
    LET n == NewId(nodes, MaxSharedNodes)
        shared == IF head = None THEN nodes ELSE RcClone(nodes, Unwrap(head))
    IN [nodes |-> shared @@ (n :> PNode(elem, head)), head |-> Some(n)]

\* Mutant of TailOp: the link of the successor's successor is returned.
TailOp_SkipsTwo(nodes, head) ==
    IF head = None THEN [nodes |-> nodes, head |-> None]
    ELSE IF nodes[Unwrap(head)].next = None
         THEN [nodes |-> nodes, head |-> None]
         ELSE IF nodes[Unwrap(nodes[Unwrap(head)].next)].next = None
         THEN [nodes |-> nodes, head |-> None]
         ELSE [nodes |-> RcClone(nodes,
                    Unwrap(nodes[Unwrap(nodes[Unwrap(head)].next)].next)),
               head |-> nodes[Unwrap(nodes[Unwrap(head)].next)].next]

\* tail: the heap and the head of the stack it returns.
TailOp(nodes, head) ==
    IF head = None THEN [nodes |-> nodes, head |-> None]
    ELSE IF nodes[Unwrap(head)].next = None
         THEN [nodes |-> nodes, head |-> None]
         ELSE [nodes |-> RcClone(nodes, Unwrap(nodes[Unwrap(head)].next)),
               head |-> nodes[Unwrap(head)].next]

\* head
HeadOp(nodes, head) ==
    IF head = None THEN None ELSE Some(nodes[Unwrap(head)].elem)

\* Mutant of DropOp: every node of the chain is freed, shared or not.
RECURSIVE DropOp_FreesShared(_, _)
DropOp_FreesShared(nodes, head) ==
    IF head = None THEN nodes
    ELSE IF Unwrap(head) \notin DOMAIN nodes THEN nodes
    ELSE DropOp_FreesShared(Free(nodes, Unwrap(head)),
                            nodes[Unwrap(head)].next)

\* Mutant of DropOp: the walk ends after the head node; the reference held
\* by a released node's next link is never given up.
DropOp_LeaksNext(nodes, head) ==
    IF head = None THEN nodes
    ELSE IF nodes[Unwrap(head)].strong = 1
         THEN Free(nodes, Unwrap(head))
         ELSE [nodes EXCEPT ![Unwrap(head)].strong = @ - 1]

\* Drop for PersistentStack: walk down from the head while try_unwrap
\* succeeds (strong count one: the node is freed, its next taken); the
\* first node that is still shared only loses this reference.
RECURSIVE DropOp(_, _)
DropOp(nodes, head) ==
    IF head = None THEN nodes
    ELSE IF nodes[Unwrap(head)].strong = 1
         THEN DropOp(Free(nodes, Unwrap(head)), nodes[Unwrap(head)].next)
         ELSE [nodes EXCEPT ![Unwrap(head)].strong = @ - 1]

PPrepend(a, elem) ==
    /\ unit = "persistent_stack"
    /\ lastOp' = "PersistentStack.prepend"
    /\ a \in DOMAIN pVers
    /\ DOMAIN pVers # VerIds
    /\ CanAlloc(pNodes, MaxSharedNodes)
    /\ LET r == PrependOp(pNodes, pVers[a], elem)
           b == NewSlot(VerIds, DOMAIN pVers)
       IN
        /\ pNodes' = r.nodes
        /\ pVers' = pVers @@ (b :> r.head)
        /\ lastRet' = None
    /\ UNCHANGED <<pIter, ctlVars, dropVars, stackVars, queueVars, dequeVars>>

PTail(a) ==
    /\ unit = "persistent_stack"
    /\ lastOp' = "PersistentStack.tail"
    /\ a \in DOMAIN pVers
    /\ DOMAIN pVers # VerIds
    /\ LET r == TailOp(pNodes, pVers[a])
           b == NewSlot(VerIds, DOMAIN pVers)
       IN
        /\ pNodes' = r.nodes
        /\ pVers' = pVers @@ (b :> r.head)
        /\ lastRet' = None
    /\ UNCHANGED <<pIter, ctlVars, dropVars, stackVars, queueVars, dequeVars>>

PHead(a) ==
    /\ unit = "persistent_stack"
    /\ lastOp' = "PersistentStack.head"
    /\ a \in DOMAIN pVers
    /\ lastRet' = HeadOp(pNodes, pVers[a])
    /\ UNCHANGED <<pVers, pNodes, pIter, ctlVars, dropVars, stackVars,
                   queueVars,
                   dequeVars>>

\* A version goes out of scope.  An Iter borrows the version it was made
\* from, so the compiler admits the drop only when no Iter over it is live.
PDrop(a) ==
    /\ unit = "persistent_stack"
    /\ lastOp' = "PersistentStack.drop"
    /\ a \in DOMAIN pVers
    /\ pIter # None => Unwrap(pIter).of # a
    /\ pNodes' = DropOp(pNodes, pVers[a])
    /\ pVers' = [b \in DOMAIN pVers \ {a} |-> pVers[b]]
    /\ lastRet' = None
    /\ UNCHANGED <<pIter, ctlVars, dropVars, stackVars, queueVars, dequeVars>>

\* iter: next refers to the head node (as_deref).  The caller holds one
\* Iter at a time: pIter is None or that iterator, with the version it
\* borrows (of) and what it has yielded so far (seen).
PIter(a) ==
    /\ unit = "persistent_stack"
    /\ lastOp' = "PersistentStack.iter"
    /\ a \in DOMAIN pVers
    /\ pIter = None
    /\ pIter' = Some([of |-> a, next |-> pVers[a], seen |-> <<>>])
    /\ lastRet' = None
    /\ UNCHANGED <<pVers, pNodes, ctlVars, dropVars, stackVars, queueVars,
                   dequeVars>>

\* Mutant of IterNextOp: the iterator advances before it reads the element.
IterNextOp_ReadsSuccessor(nodes, next) ==
    IF next = None THEN [ret |-> None, next |-> None]
    ELSE IF nodes[Unwrap(next)].next = None
         THEN [ret |-> None, next |-> None]
         ELSE [ret |-> Some(nodes[Unwrap(nodes[Unwrap(next)].next)].elem),
               next |-> nodes[Unwrap(next)].next]

\* Iterator::next: what it returns, and the iterator's next field afterwards.
IterNextOp(nodes, next) ==
    IF next = None THEN [ret |-> None, next |-> None]
    ELSE [ret |-> Some(nodes[Unwrap(next)].elem),
          next |-> nodes[Unwrap(next)].next]

PIterNext ==
    /\ unit = "persistent_stack"
    /\ lastOp' = "Iter.next"
    /\ pIter # None
    /\ LET it == Unwrap(pIter)
           r == IterNextOp(pNodes, it.next)
       IN
        /\ pIter' = Some([it EXCEPT !.next = r.next, !.seen = @ \o r.ret])
        /\ lastRet' = r.ret
    /\ UNCHANGED <<pVers, pNodes, ctlVars, dropVars, stackVars, queueVars,
                   dequeVars>>

\* The caller drops its iterator.
PIterDrop ==
    /\ unit = "persistent_stack"
    /\ lastOp' = "Iter.drop"
    /\ pIter # None
    /\ pIter' = None
    /\ lastRet' = None
    /\ UNCHANGED <<pVers, pNodes, ctlVars, dropVars, stackVars, queueVars,
                   dequeVars>>

\* ========================================================= specifications
\* Each container is a component of its own: the caller (a test of the
\* container's module) constructs one of them, named by unit, and calls
\* the operations of that one.
Units == {"ok_stack", "bad_stack", "ok_unsafe_queue", "bad_safe_deque",
          "persistent_stack"}

Init ==
    /\ unit \in Units
    /\ OkNew
    /\ BadNew
    /\ QNew
    /\ DNew
    /\ PInit
    /\ panicked = FALSE
    /\ phase = "live"
    /\ cur_link = None
    /\ released = <<>>
    /\ iters = 0
    /\ lastOp = "new"
    /\ lastRet = None

NextOkStack ==
    \/ \E e \in Elems : OkPush(e)
    \/ OkPop
    \/ OkPeek
    \/ \E e \in Elems : OkPeekMut(e)
    \/ OkDropStart
    \/ OkDropStep
    \/ OkDropEnd

NextBadStack ==
    \/ \E e \in Elems : BadPush(e)
    \/ BadPop
    \/ BadDropStart
    \/ BadDropStep
    \/ BadDropEnd

NextStack ==
    \/ NextOkStack
    \/ NextBadStack

NextQueue ==
    \/ \E e \in Elems : QPush(e)
    \/ QPop
    \/ QDrop

NextDeque ==
    \/ \E e \in Elems : DPushFront(e)
    \/ \E e \in Elems : DPushBack(e)
    \/ DPopFront
    \/ DPopBack
    \/ DPeekFront
    \/ DPeekBack
    \/ DPeekFrontMut
    \/ DPeekBackMut
    \/ \E n \in DequeIds, e \in Elems : DViewWrite(n, e)
    \/ \E n \in DequeIds : DViewDrop(n)
    \/ DDropStep

NextPStack ==
    \/ PNew
    \/ \E a \in VerIds, e \in Elems : PPrepend(a, e)
    \/ \E a \in VerIds : PTail(a)
    \/ \E a \in VerIds : PHead(a)
    \/ \E a \in VerIds : PDrop(a)
    \/ \E a \in VerIds : PIter(a)
    \/ PIterNext
    \/ PIterDrop

Next ==
    \/ NextStack
    \/ NextQueue
    \/ NextDeque
    \/ NextPStack

Spec == Init /\ [][Next]_vars
SpecStack == Init /\ [][NextStack]_vars
\* A drop that has started keeps running: the thread executes its loop.
SpecStackDrop ==
    /\ SpecStack
    /\ WF_vars(OkDropStep \/ OkDropEnd)
    /\ WF_vars(BadDropStep \/ BadDropEnd)
SpecQueue == Init /\ [][NextQueue]_vars
SpecDeque == Init /\ [][NextDeque]_vars
\* A drop that has started keeps running: the thread executes its loop.
SpecDequeDrop == SpecDeque /\ WF_vars(phase = "dropping" /\ DDropStep)
SpecPStack == Init /\ [][NextPStack]_vars

\* ================================================================= claims
\* What each container holds, first element first.
OkElems == ChainElems(okNodes, okHead)
BadElems == ChainElems(badNodes, badHead)
QElems == ChainElems(qNodes, qHead)
DElems == ChainElems(dNodes, dHead)
PElems(a) == ChainElems(pNodes, pVers[a])

Last(seq) == seq[Len(seq)]
Front(seq) == SubSeq(seq, 1, Len(seq) - 1)

\* A pop took the element at one end of before and returned it, or found
\* before empty and returned None.
PoppedHead(before, after, ret) ==
    IF before = <<>> THEN ret = None /\ after = <<>>
    ELSE ret = Some(Head(before)) /\ after = Tail(before)

PoppedLast(before, after, ret) ==
    IF before = <<>> THEN ret = None /\ after = <<>>
    ELSE ret = Some(Last(before)) /\ after = Front(before)

\* C1: on OkStack and on BadStack every push puts its element on top of the
\* elements held, and every pop removes and returns the top one, the most
\* recently pushed element not yet popped, or returns None when and only
\* when none is held.
C1_StackLifo ==
    [][ /\ \A e \in Elems : OkPush(e) => OkElems' = <<e>> \o OkElems
        /\ OkPop => PoppedHead(OkElems, OkElems', lastRet')
        /\ \A e \in Elems : BadPush(e) => BadElems' = <<e>> \o BadElems
        /\ BadPop => PoppedHead(BadElems, BadElems', lastRet') ]_vars

\* A pop has returned 2 from a stack that was pushed 1, 2, 2 before it.
C1_Witness ==
    /\ lastOp = "BadStack.pop"
    /\ lastRet = Some(2)
    /\ BadElems = <<2, 1>>

\* C2: on OkUnsafeQueue every push puts its element behind the elements
\* held, and every pop removes and returns the first one, the oldest pushed
\* element not yet popped, or returns None when and only when none is held.
C2_QueueFifo ==
    [][ /\ \A e \in Elems : QPush(e) => QElems' = QElems \o <<e>>
        /\ QPop => PoppedHead(QElems, QElems', lastRet') ]_vars

\* A pop has returned 1 and left 2, 2 in the queue.
C2_Witness ==
    /\ lastOp = "OkUnsafeQueue.pop"
    /\ lastRet = Some(1)
    /\ QElems = <<2, 2>>

\* C3: BadSafeDeque behaves as a sequence: push_front prepends, push_back
\* appends, pop_front removes and returns the first element, pop_back the
\* last, and either pop returns None exactly on the empty sequence; none of
\* them panics.
C3_DequeSequence ==
    [][ /\ \A e \in Elems : DPushFront(e) => DElems' = <<e>> \o DElems
        /\ \A e \in Elems : DPushBack(e) => DElems' = DElems \o <<e>>
        /\ DPopFront => PoppedHead(DElems, DElems', lastRet')
        /\ DPopBack => PoppedLast(DElems, DElems', lastRet')
        /\ (\/ \E e \in Elems : DPushFront(e) \/ DPushBack(e)
            \/ DPopFront
            \/ DPopBack) => ~panicked' ]_vars

\* pop_back has returned 1 from a deque that held 2, 2, 1.
C3_Witness ==
    /\ lastOp = "BadSafeDeque.pop_back"
    /\ lastRet = Some(1)
    /\ DElems = <<2, 2>>

\* C4: on an empty container pop (OkStack, BadStack, OkUnsafeQueue),
\* pop_front, pop_back and the four peeks (BadSafeDeque), peek and peek_mut
\* (OkStack) and head (PersistentStack) return None without panicking and
\* leave the container as it was, still empty with its links absent, so
\* that a repeated call finds the same state and returns None again.
C4_EmptyReturnsNone ==
    [][ /\ ( /\ okHead = None
             /\ OkPop \/ OkPeek \/ \E e \in Elems : OkPeekMut(e) )
            => lastRet' = None /\ okHead' = None /\ okNodes' = okNodes
        /\ (badHead = Empty /\ BadPop)
            => lastRet' = None /\ badHead' = Empty /\ badNodes' = badNodes
        /\ (qHead = None /\ QPop)
            => /\ lastRet' = None
               /\ qHead' = None /\ qTail' = NullPtr /\ qNodes' = qNodes
        /\ ( /\ dHead = None /\ dTail = None
             /\ \/ DPopFront \/ DPopBack
                \/ DPeekFront \/ DPeekBack \/ DPeekFrontMut \/ DPeekBackMut )
            => /\ lastRet' = None /\ ~panicked'
               /\ dHead' = None /\ dTail' = None /\ dNodes' = dNodes
        /\ \A a \in VerIds : (a \in DOMAIN pVers /\ pVers[a] = None /\ PHead(a))
            => lastRet' = None /\ pVers' = pVers /\ pNodes' = pNodes ]_vars

\* pop_back has returned None on an empty deque.
C4_Witness ==
    /\ lastOp = "BadSafeDeque.pop_back"
    /\ lastRet = None
    /\ dHead = None /\ dTail = None /\ dNodes = <<>>
    /\ ~panicked

\* The versions alive before and after a step.
Surviving == DOMAIN pVers \cap DOMAIN pVers'

\* The version a step has created.
Created == CHOOSE b \in DOMAIN pVers' : b \notin DOMAIN pVers

\* C5: whatever is done with a PersistentStack or with the versions derived
\* from it (new, prepend, tail, head, iter, next, dropping a version or an
\* iterator), every version that is alive before and after the step shows
\* the same elements through head and through iteration as before it.
C5_VersionsUnaffected ==
    [][ \A a \in Surviving :
            /\ PElems(a)' = PElems(a)
            /\ HeadOp(pNodes', pVers'[a]) = HeadOp(pNodes, pVers[a]) ]_vars

\* A version has been dropped and the surviving one holds 2, 1 on nodes
\* whose only references are the survivor's head and its top node's next.
C5_Witness ==
    /\ lastOp = "PersistentStack.drop"
    /\ \E a \in DOMAIN pVers :
        /\ PElems(a) = <<2, 1>>
        /\ \A n \in DOMAIN pNodes : pNodes[n].strong = 1

\* tail of a sequence of elements: empty for at most one element.
TailElems(seq) == IF Len(seq) <= 1 THEN <<>> ELSE Tail(seq)

\* C6: for every live version a, holding e1, ..., en, the stack a.tail()
\* holds e2, ..., en, and is empty when a holds at most one element; and
\* a.prepend(x).tail() holds the same elements as a.
C6_TailLaw ==
    \A a \in DOMAIN pVers :
        /\ LET t == TailOp(pNodes, pVers[a]) IN
            /\ ChainElems(t.nodes, t.head) = TailElems(PElems(a))
            /\ Len(PElems(a)) <= 1 => t.head = None
        /\ CanAlloc(pNodes, MaxSharedNodes) =>
            \A x \in Elems :
                LET b == PrependOp(pNodes, pVers[a], x)
                    t == TailOp(b.nodes, b.head)
                IN /\ ChainElems(t.nodes, t.head) = PElems(a)
                   /\ t.head = pVers[a]

\* tail has been called on a version holding 2, 1 and returned one holding 1.
C6_Witness ==
    /\ lastOp = "PersistentStack.tail"
    /\ \E a, b \in DOMAIN pVers :
        /\ PElems(a) = <<2, 1>>
        /\ PElems(b) = <<1>>
        /\ pVers[b] = pNodes[Unwrap(pVers[a])].next

\* What an iterator has still to yield.
IterRest(it) == ChainElems(pNodes, it.next)

\* C7: prepending x onto a gives a stack holding x followed by a's
\* elements, so a stack built by prepending x1, ..., xn holds xn, ..., x1;
\* an iterator made by iter() has yielded nothing and has all of them to
\* come; each next() yields the first element still to come, or None once
\* none is left, and then the iterator stays as it is; what an iterator has
\* yielded and what it has still to yield always make up the elements of
\* its stack, so that every iterator over the stack yields the same
\* sequence; and iter() and next() change no version and no node.
C7_IterYieldsElems ==
    [][ /\ \A a \in VerIds, x \in Elems : PPrepend(a, x) =>
                ChainElems(pNodes', pVers'[Created]) = <<x>> \o PElems(a)
        /\ \A a \in VerIds : PIter(a) =>
                /\ Unwrap(pIter').seen = <<>>
                /\ IterRest(Unwrap(pIter')) = PElems(a)
                /\ UNCHANGED <<pVers, pNodes>>
        /\ PIterNext =>
                /\ IF IterRest(Unwrap(pIter)) = <<>>
                   THEN lastRet' = None /\ pIter' = pIter
                   ELSE /\ lastRet' = Some(Head(IterRest(Unwrap(pIter))))
                        /\ ChainElems(pNodes', Unwrap(pIter').next)
                                = Tail(IterRest(Unwrap(pIter)))
                /\ UNCHANGED <<pVers, pNodes>>
        /\ pIter' # None =>
                Unwrap(pIter').seen
                        \o ChainElems(pNodes', Unwrap(pIter').next)
                    = ChainElems(pNodes', pVers'[Unwrap(pIter').of]) ]_vars

\* An iterator over a stack holding 2, 1 has yielded 2, 1 and next() has
\* then returned None.
C7_Witness ==
    /\ lastOp = "Iter.next"
    /\ lastRet = None
    /\ pIter # None
    /\ Unwrap(pIter).seen = <<2, 1>>
    /\ PElems(Unwrap(pIter).of) = <<2, 1>>

\* seq with its i-th element replaced by v.
Replaced(seq, i, v) == [j \in 1..Len(seq) |-> IF j = i THEN v ELSE seq[j]]

\* C8: on a non-empty BadSafeDeque peek_front_mut gives a write view of the
\* first element and peek_back_mut one of the last; a value written through
\* it replaces that element and changes nothing else (head, tail, the links,
\* the counts, the other elements, their number and order); releasing a view
\* changes no element; and a peek_front or pop_front (peek_back or pop_back)
\* that is granted afterwards returns the first (last) element, the value
\* written.
C8_WriteThroughView ==
    [][ /\ (dHead # None /\ DPeekFrontMut /\ ~panicked') =>
                /\ dNodes' = [dNodes EXCEPT ![Unwrap(dHead)].borrow = -1]
                /\ lastRet' = Some(Head(DElems))
        /\ (dTail # None /\ DPeekBackMut /\ ~panicked') =>
                /\ dNodes' = [dNodes EXCEPT ![Unwrap(dTail)].borrow = -1]
                /\ lastRet' = Some(Last(DElems))
        /\ \A n \in DequeIds, v \in Elems : DViewWrite(n, v) =>
                /\ n = Unwrap(dHead) \/ n = Unwrap(dTail)
                /\ n = Unwrap(dHead) => DElems' = Replaced(DElems, 1, v)
                /\ n = Unwrap(dTail) =>
                        DElems' = Replaced(DElems, Len(DElems), v)
                /\ dNodes' = [dNodes EXCEPT ![n].elem = v]
                /\ UNCHANGED <<dHead, dTail>>
        /\ \A n \in DequeIds : DViewDrop(n) => DElems' = DElems
        /\ (dHead # None /\ DPeekFront /\ ~panicked') =>
                lastRet' = Some(Head(DElems)) /\ DElems' = DElems
        /\ (dTail # None /\ DPeekBack /\ ~panicked') =>
                lastRet' = Some(Last(DElems)) /\ DElems' = DElems
        /\ (dHead # None /\ DPopFront) => lastRet' = Some(Head(DElems))
        /\ (dTail # None /\ DPopBack) => lastRet' = Some(Last(DElems)) ]_vars

\* peek_back_mut returned a view of the last element, 1, of three, and the
\* caller has written 2 through it.
C8_Witness ==
    /\ lastOp = "RefMut.write"
    /\ lastRet = Some(1)
    /\ DElems = <<1, 1, 2>>
    /\ dNodes[Unwrap(dTail)].borrow = -1

\* C9: on a non-empty OkStack peek returns the top element, the one the
\* next pop returns, and changes nothing; a value written through peek_mut
\* replaces the top element in place, the nodes below it, the links and the
\* length staying as they are; and pop returns the top element.
C9_StackPeek ==
    [][ /\ (okHead # None /\ OkPeek) =>
                /\ lastRet' = Some(Head(OkElems))
                /\ UNCHANGED <<okHead, okNodes>>
        /\ \A v \in Elems : (okHead # None /\ OkPeekMut(v)) =>
                /\ OkElems' = <<v>> \o Tail(OkElems)
                /\ okNodes' = [okNodes EXCEPT ![Unwrap(okHead)].elem = v]
                /\ okHead' = okHead
        /\ (okHead # None /\ OkPop) => lastRet' = Some(Head(OkElems)) ]_vars

\* peek_mut gave a view of the top element 1 of three and 2 was written.
C9_Witness ==
    /\ lastOp = "OkStack.peek_mut"
    /\ lastRet = Some(1)
    /\ OkElems = <<2, 1, 1>>

\* The node a peek of the given end looks at, and its borrow flag.
FlagOf(link) == dNodes[Unwrap(link)].borrow

\* A request for a view panicked and left the deque as it was.
Rejected == panicked' /\ UNCHANGED <<dHead, dTail, dNodes>>

\* A request for a view of the end node was granted: only its flag changed.
Granted(link, flag) ==
    /\ ~panicked'
    /\ dNodes' = [dNodes EXCEPT ![Unwrap(link)].borrow = flag]
    /\ UNCHANGED <<dHead, dTail>>

\* C10: a request for a read or write view of a node on which a write view
\* is outstanding panics and leaves the node as it was; on a node with read
\* views only, a further read view is granted and a write view is rejected;
\* and on a node with no view the request is granted whatever views are
\* outstanding on the other nodes.
C10_ViewDiscipline ==
    [][ /\ (dHead # None /\ DPeekFront) =>
                IF FlagOf(dHead) < 0 THEN Rejected
                ELSE Granted(dHead, FlagOf(dHead) + 1)
        /\ (dTail # None /\ DPeekBack) =>
                IF FlagOf(dTail) < 0 THEN Rejected
                ELSE Granted(dTail, FlagOf(dTail) + 1)
        /\ (dHead # None /\ DPeekFrontMut) =>
                IF FlagOf(dHead) # 0 THEN Rejected
                ELSE Granted(dHead, -1)
        /\ (dTail # None /\ DPeekBackMut) =>
                IF FlagOf(dTail) # 0 THEN Rejected
                ELSE Granted(dTail, -1) ]_vars

\* With a read view on the first of two nodes and a write view on the last,
\* peek_back was rejected.
C10_Witness ==
    /\ lastOp = "BadSafeDeque.peek_back"
    /\ panicked
    /\ Len(DElems) = 2
    /\ dNodes[Unwrap(dHead)].borrow = 1
    /\ dNodes[Unwrap(dTail)].borrow = -1

\* ------------------------------------------------------------------ C11
\* The ids of the nodes listed in rel.
RelIds(rel) == {rel[i].id : i \in DOMAIN rel}

\* One iteration of a stack's drop loop over the heap nodes: the node that
\* cur_link names, the first of the chain not yet released, is the one node
\* released, at nesting depth 1 and with its next link already empty; the
\* rest of the chain stays allocated and is what cur_link names afterwards.
ReleasesHeadOnly(nodes, nodesAfter) ==
    /\ Len(released') = Len(released) + 1
    /\ Last(released') = [id |-> Unwrap(cur_link), next |-> None, depth |-> 1]
    /\ SubSeq(released', 1, Len(released)) = released
    /\ DOMAIN nodesAfter = DOMAIN nodes \ {Unwrap(cur_link)}
    /\ ChainElems(nodesAfter, cur_link') = Tail(ChainElems(nodes, cur_link))

\* The loop's exit: nothing is left to release and no node is left.
LeavesNoNode(head, nodes, headAfter, nodesAfter) ==
    /\ released' = released
    /\ nodes = <<>> /\ nodesAfter = <<>>
    /\ head = None /\ headAfter = None

\* C11: dropping an OkStack or a BadStack of any length releases its nodes
\* in a loop from the head downward.  The drop starts with the whole chain
\* under cur_link and nothing released; every iteration releases exactly
\* the first node not yet released, whose next link is already empty, so
\* that the release does not reach its successors (depth 1); no node is
\* released twice or is still allocated once released; a drop that has
\* started ends, and when it has ended no node is left.
C11_StackDropLoop ==
    /\ [][ /\ OkDropStart =>
                /\ released' = <<>> /\ okNodes' = okNodes
                /\ ChainElems(okNodes', cur_link') = OkElems
           /\ BadDropStart =>
                /\ released' = <<>> /\ badNodes' = badNodes
                /\ ChainElems(badNodes', cur_link') = BadElems
           /\ OkDropStep => ReleasesHeadOnly(okNodes, okNodes')
           /\ BadDropStep => ReleasesHeadOnly(badNodes, badNodes')
           /\ OkDropEnd => LeavesNoNode(okHead, okNodes, okHead', okNodes')
           /\ BadDropEnd =>
                LeavesNoNode(badHead, badNodes, badHead', badNodes') ]_vars
    /\ [](unit \in {"ok_stack", "bad_stack"} =>
            /\ Cardinality(RelIds(released)) = Len(released)
            /\ RelIds(released) \cap (DOMAIN okNodes \cup DOMAIN badNodes) = {}
            /\ phase = "dropped" => okNodes = <<>> /\ badNodes = <<>>)
    /\ (unit \in {"ok_stack", "bad_stack"} /\ phase = "dropping")
            ~> (phase = "dropped")

\* A stack of three or more nodes has been dropped, node by node.
C11_Witness ==
    /\ unit \in {"ok_stack", "bad_stack"}
    /\ phase = "dropped"
    /\ Len(released) >= 3
    /\ \A i \in DOMAIN released : released[i].next = None
    /\ okNodes = <<>> /\ badNodes = <<>>

\* ------------------------------------------------------------------ C12
\* C12: teardown of an OkUnsafeQueue holding n elements releases every node
\* with its next link already detached, so that the depth of nested node
\* releases stays within a constant that does not grow with n: as in an
\* iterative unlink/release loop, a node is released on its own (depth 1).
C12_QueueDropIterative ==
    [][ QDrop =>
            /\ RelIds(released') = DOMAIN qNodes
            /\ qNodes' = <<>>
            /\ \A i \in DOMAIN released' :
                    /\ released'[i].next = None
                    /\ released'[i].depth <= 1 ]_vars

\* ------------------------------------------------------------------ C13
\* The ids of the nodes on the chain that starts at link, in order.
RECURSIVE WalkIds(_, _, _)
WalkIds(nodes, link, fuel) ==
    IF link = None \/ fuel = 0 THEN <<>>
    ELSE IF Unwrap(link) \notin DOMAIN nodes THEN <<>>
    ELSE <<Unwrap(link)>>
            \o WalkIds(nodes, nodes[Unwrap(link)].next, fuel - 1)

QChainIds == WalkIds(qNodes, qHead, Cardinality(DOMAIN qNodes) + 1)

\* C13: in every state a live OkUnsafeQueue reaches by pushes and pops, tail
\* is null exactly when head is None, and a non-null tail points to the last
\* node of the chain head owns, whose next is None; push has never
\* dereferenced a tail whose node was removed from the chain.
C13_TailInvariant ==
    (unit = "ok_unsafe_queue" /\ phase = "live") =>
        /\ (qTail = NullPtr) <=> (qHead = None)
        /\ qTail # NullPtr =>
                /\ qTail \in DOMAIN qNodes
                /\ qTail = Last(QChainIds)
                /\ qNodes[qTail].next = None
        /\ DOMAIN qNodes = {QChainIds[i] : i \in DOMAIN QChainIds}
        /\ ~qUB

\* A pop has left two or more nodes, and tail is not the head node.
C13_Witness ==
    /\ unit = "ok_unsafe_queue"
    /\ phase = "live"
    /\ lastOp = "OkUnsafeQueue.pop"
    /\ lastRet # None
    /\ Len(QChainIds) >= 2
    /\ qTail # NullPtr
    /\ qTail # Unwrap(qHead)

\* ------------------------------------------------------------------ C14
DChainIds == WalkIds(dNodes, dHead, Cardinality(DOMAIN dNodes) + 1)

\* C14: between the operations of a BadSafeDeque, in every reachable state,
\* A.next refers to B exactly when B.prev refers to A, head is None exactly
\* when tail is None, the head node has no prev and the tail node no next,
\* and following next from head visits every node exactly once and ends at
\* tail.
C14_DequeLinks ==
    unit = "bad_safe_deque" =>
        /\ \A A \in DOMAIN dNodes, B \in DOMAIN dNodes :
                (dNodes[A].next = Some(B)) <=> (dNodes[B].prev = Some(A))
        /\ \A A \in DOMAIN dNodes :
                /\ dNodes[A].next # None =>
                        Unwrap(dNodes[A].next) \in DOMAIN dNodes
                /\ dNodes[A].prev # None =>
                        Unwrap(dNodes[A].prev) \in DOMAIN dNodes
        /\ (dHead = None) <=> (dTail = None)
        /\ dHead # None =>
                /\ Unwrap(dHead) \in DOMAIN dNodes
                /\ Unwrap(dTail) \in DOMAIN dNodes
                /\ dNodes[Unwrap(dHead)].prev = None
                /\ dNodes[Unwrap(dTail)].next = None
                /\ Last(DChainIds) = Unwrap(dTail)
        /\ Len(DChainIds) = Cardinality(DOMAIN dNodes)
        /\ {DChainIds[i] : i \in DOMAIN DChainIds} = DOMAIN dNodes

\* Three nodes are linked both ways after a push at the front.
C14_Witness ==
    /\ unit = "bad_safe_deque"
    /\ lastOp = "BadSafeDeque.push_front"
    /\ Len(DChainIds) = 3
    /\ dNodes[DChainIds[2]].prev = dHead
    /\ dNodes[DChainIds[2]].next = dTail

\* ------------------------------------------------------------------ C15
\* C15: whenever a BadSafeDeque holds exactly one element, head and tail
\* refer to the same node, whichever operation produced the state; from
\* such a state pop_front and pop_back both return that element and leave
\* head and tail None and no node allocated.
C15_Singleton ==
    /\ [](unit = "bad_safe_deque" /\ Cardinality(DOMAIN dNodes) = 1 =>
            /\ dHead # None
            /\ dHead = dTail
            /\ Len(DElems) = 1)
    /\ [][ (Len(DElems) = 1 /\ (DPopFront \/ DPopBack)) =>
                /\ lastRet' = Some(DElems[1])
                /\ dHead' = None
                /\ dTail' = None
                /\ dNodes' = <<>>
                /\ ~panicked' ]_vars

\* pop_back has just returned the only element, and the deque is empty.
C15_Witness ==
    /\ unit = "bad_safe_deque"
    /\ phase = "live"
    /\ lastOp = "BadSafeDeque.pop_back"
    /\ lastRet # None
    /\ dHead = None
    /\ dTail = None
    /\ dNodes = <<>>

\* ------------------------------------------------------------------ C16
\* The references to node n that are alive: the deque's head and tail
\* fields and the next and prev links of the nodes.
Referrers(n) ==
    (IF dHead = Some(n) THEN 1 ELSE 0)
    + (IF dTail = Some(n) THEN 1 ELSE 0)
    + Cardinality({m \in DOMAIN dNodes : dNodes[m].next = Some(n)})
    + Cardinality({m \in DOMAIN dNodes : dNodes[m].prev = Some(n)})

\* C16: in pop_front and pop_back of a BadSafeDeque, after any pushes and
\* pops, the detached end node has exactly one strong reference left when
\* its element is extracted.  Every node's strong count is the number of
\* references to it; an end node is referred to by its end field and by
\* its neighbour's back link or, if alone, by the other end field, two in
\* all, of which the pop clears one before Rc::try_unwrap: the pop returns
\* the element, releases the node and does not panic, also when it is
\* called by drop.
C16_UnwrapSucceeds ==
    /\ [](unit = "bad_safe_deque" =>
            \A n \in DOMAIN dNodes : dNodes[n].strong = Referrers(n))
    /\ [][ /\ (DPopFront /\ dHead # None) =>
                /\ dNodes[Unwrap(dHead)].strong = 2
                /\ ~panicked'
                /\ lastRet' = Some(dNodes[Unwrap(dHead)].elem)
                /\ Unwrap(dHead) \notin DOMAIN dNodes'
           /\ (DPopBack /\ dTail # None) =>
                /\ dNodes[Unwrap(dTail)].strong = 2
                /\ ~panicked'
                /\ lastRet' = Some(dNodes[Unwrap(dTail)].elem)
                /\ Unwrap(dTail) \notin DOMAIN dNodes'
           /\ (DDropStep /\ dHead # None) =>
                /\ panicked' = panicked
                /\ lastRet' = Some(dNodes[Unwrap(dHead)].elem)
                /\ Unwrap(dHead) \notin DOMAIN dNodes' ]_vars

\* pop_back has extracted the element of an end node that had a neighbour.
C16_Witness ==
    /\ unit = "bad_safe_deque"
    /\ phase = "live"
    /\ lastOp = "BadSafeDeque.pop_back"
    /\ lastRet # None
    /\ ~panicked
    /\ Len(DElems) = 2
    /\ \A n \in DOMAIN dNodes : dNodes[n].strong = 2

\* ------------------------------------------------------------------ C17
\* C17: dropping a BadSafeDeque in any reachable state pops from the front
\* until pop_front returns None.  No iteration has run before the drop;
\* every iteration on a non-empty deque pops the front element and goes on,
\* so the iterations made and the elements left add up to the same number
\* throughout; the iteration on the empty deque is the last one, which makes
\* the iterations one more than the elements there were; the loop ends, and
\* then head and tail are None and every node has been released.
C17_DequeDrop ==
    /\ [][ DDropStep =>
                /\ PoppedHead(DElems, DElems', lastRet')
                /\ iters' = iters + 1
                /\ panicked' = panicked
                /\ DElems # <<>> =>
                        /\ phase' = "dropping"
                        /\ iters' + Len(DElems') = iters + Len(DElems)
                /\ DElems = <<>> =>
                        /\ phase' = "dropped"
                        /\ lastRet' = None ]_vars
    /\ [](unit = "bad_safe_deque" =>
            /\ phase = "live" => iters = 0
            /\ phase = "dropping" => iters >= 1 /\ NoViews
            /\ phase = "dropped" =>
                    /\ dHead = None
                    /\ dTail = None
                    /\ dNodes = <<>>
                    /\ DElems = <<>>)
    /\ (unit = "bad_safe_deque" /\ phase = "dropping") ~> (phase = "dropped")

\* A deque of three elements has been dropped in four iterations.
C17_Witness ==
    /\ unit = "bad_safe_deque"
    /\ phase = "dropped"
    /\ iters = 4
    /\ dNodes = <<>>

\* ------------------------------------------------------------------ C18
\* The nodes on the chain of version a, from the top, and as a set.
PChainIds(a) == WalkIds(pNodes, pVers[a], Cardinality(DOMAIN pNodes) + 1)
PReach(a) == {PChainIds(a)[i] : i \in DOMAIN PChainIds(a)}

\* The nodes reachable from a live version other than a.
ReachOthers(a) == UNION {PReach(b) : b \in DOMAIN pVers \ {a}}

\* The live references to node n: version heads and nodes' next links.
PReferrers(n) ==
    Cardinality({a \in DOMAIN pVers : pVers[a] = Some(n)})
    + Cardinality({m \in DOMAIN pNodes : pNodes[m].next = Some(n)})

\* C18: dropping one PersistentStack version walks its chain from the top
\* and releases the nodes down to, and not including, the first node that
\* is still referenced elsewhere, which only loses one reference.  The
\* nodes released are those of the chain that no other live version
\* reaches; no node another live version reaches is released or changed;
\* in every state each node's reference count is the number of live
\* version heads and next links of live nodes that refer to it, and every
\* node is reachable from a live version.
C18_PersistentDrop ==
    /\ [][ \A a \in VerIds : PDrop(a) =>
            LET gone == DOMAIN pNodes \ DOMAIN pNodes'
                chain == PChainIds(a)
            IN
            /\ DOMAIN pNodes' \subseteq DOMAIN pNodes
            /\ gone = PReach(a) \ ReachOthers(a)
            /\ \A i \in DOMAIN chain : chain[i] \in gone =>
                    /\ pNodes[chain[i]].strong = 1
                    /\ \A j \in 1..i : chain[j] \in gone
            /\ \A n \in ReachOthers(a) :
                    /\ n \in DOMAIN pNodes'
                    /\ pNodes'[n].elem = pNodes[n].elem
                    /\ pNodes'[n].next = pNodes[n].next
            /\ \A i \in DOMAIN chain : chain[i] \notin gone =>
                    pNodes'[chain[i]].strong =
                        IF i = Cardinality(gone) + 1
                        THEN pNodes[chain[i]].strong - 1
                        ELSE pNodes[chain[i]].strong ]_vars
    /\ [](unit = "persistent_stack" =>
            /\ \A n \in DOMAIN pNodes : pNodes[n].strong = PReferrers(n)
            /\ DOMAIN pNodes = UNION {PReach(a) : a \in DOMAIN pVers})

\* A version has been dropped and the one left holds a chain of two nodes.
C18_Witness ==
    /\ unit = "persistent_stack"
    /\ lastOp = "PersistentStack.drop"
    /\ Cardinality(DOMAIN pVers) = 1
    /\ \E a \in DOMAIN pVers : Len(PChainIds(a)) = 2
    /\ \A n \in DOMAIN pNodes : pNodes[n].strong = 1

\* ------------------------------------------------------------------ C19
\* The nodes that were allocated before the step are all still allocated,
\* with the element and the next link they had; only the node that link
\* refers to, if any, has gained a reference, and exactly one.
SharesWith(link) ==
    /\ DOMAIN pNodes \subseteq DOMAIN pNodes'
    /\ \A n \in DOMAIN pNodes :
            /\ pNodes'[n].elem = pNodes[n].elem
            /\ pNodes'[n].next = pNodes[n].next
            /\ pNodes'[n].strong =
                    IF link = Some(n) THEN pNodes[n].strong + 1
                    ELSE pNodes[n].strong

\* C19: a.prepend(x) allocates exactly one node, which holds x and whose
\* next link is a's head link itself, and the new stack's head refers to
\* it; a.tail() allocates no node, and the new stack's head is the next
\* link of a's head node itself (None for an empty a).  Neither copies or
\* changes a node that exists: the node shared gains one reference.
C19_SharedNotCopied ==
    [][ /\ \A a \in VerIds, e \in Elems : PPrepend(a, e) =>
            /\ Cardinality(DOMAIN pNodes' \ DOMAIN pNodes) = 1
            /\ \A n \in DOMAIN pNodes' \ DOMAIN pNodes :
                    /\ pVers'[Created] = Some(n)
                    /\ pNodes'[n] = [elem |-> e, next |-> pVers[a],
                                     strong |-> 1]
            /\ SharesWith(pVers[a])
            /\ \A b \in DOMAIN pVers : pVers'[b] = pVers[b]
       /\ \A a \in VerIds : PTail(a) =>
            /\ DOMAIN pNodes' = DOMAIN pNodes
            /\ pVers'[Created] =
                    IF pVers[a] = None THEN None
                    ELSE pNodes[Unwrap(pVers[a])].next
            /\ SharesWith(pVers'[Created])
            /\ \A b \in DOMAIN pVers : pVers'[b] = pVers[b] ]_vars

\* tail has returned a stack whose head is the very node that the next
\* link of the other stack's head node refers to.
C19_Witness ==
    /\ unit = "persistent_stack"
    /\ lastOp = "PersistentStack.tail"
    /\ \E a \in DOMAIN pVers, b \in DOMAIN pVers :
            /\ a # b
            /\ pVers[a] # None
            /\ pVers[b] # None
            /\ pNodes[Unwrap(pVers[a])].next = pVers[b]
            /\ pNodes[Unwrap(pVers[b])].strong = 2

\* ------------------------------------------------------------------ C20
\* C20: the peeks take &self, so a back view can be requested while a
\* front view is held.  With two or more elements the front and the back
\* node differ: with a view outstanding on the front node and none on the
\* back node, peek_back and peek_back_mut are granted and leave the front
\* view as it is.  With exactly one element head and tail are the same
\* node: while a write view of it is outstanding peek_back and
\* peek_back_mut are rejected, and while any view of it is outstanding
\* peek_back_mut is rejected.
C20_FrontAndBackViews ==
    [][ /\ (Len(DElems) >= 2 /\ FlagOf(dHead) # 0 /\ FlagOf(dTail) = 0
                /\ (DPeekBack \/ DPeekBackMut)) =>
                        /\ dHead # dTail
                        /\ ~panicked'
                        /\ lastRet' = Some(Last(DElems))
                        /\ dNodes'[Unwrap(dHead)] = dNodes[Unwrap(dHead)]
                        /\ dNodes'[Unwrap(dTail)].borrow # 0
                        /\ DPeekBack => Granted(dTail, 1)
                        /\ DPeekBackMut => Granted(dTail, -1)
        /\ (Len(DElems) = 1 /\ FlagOf(dHead) = -1
                /\ (DPeekBack \/ DPeekBackMut)) =>
                        /\ dHead = dTail
                        /\ Rejected
        /\ (Len(DElems) = 1 /\ FlagOf(dHead) # 0 /\ DPeekBackMut) =>
                        /\ dHead = dTail
                        /\ Rejected ]_vars

\* With a write view on the only node, peek_back was rejected.
C20_Witness ==
    /\ unit = "bad_safe_deque"
    /\ lastOp = "BadSafeDeque.peek_back"
    /\ panicked
    /\ Len(DElems) = 1
    /\ dHead = dTail
    /\ FlagOf(dHead) = -1
====
